---- MODULE Spec2Model ----
(***************************************************************************)
(* The retrieval path of the Cyberpunk Oracle (src/search_bot.py): the     *)
(* CyberpunkBot constructor loading the corpus snapshots, and the query    *)
(* methods classify_intent, extract_query_entities, search_and_rank and    *)
(* ask_rag.  Text is a sequence of one-character strings.  Distances and   *)
(* scores are integers counting hundredths (0.2 is 20, 0.05 is 5); an      *)
(* embedding is one integer coordinate in tenths, so that a squared L2     *)
(* distance is the square of a coordinate difference.  The builder of the  *)
(* snapshots (src/build_indexes.py) and the streaming loop of the chat     *)
(* input handler follow, each with a specification of its own.             *)
(***************************************************************************)
EXTENDS Integers, Sequences, FiniteSets, TLC

VARIABLES
    data,           \* the embedding documents files build_indexes.py reads
    files,          \* what data/indexes holds when the bot is constructed
    pc,             \* "source" before build_indexes.py has run, "start" before
                    \* CyberpunkBot() returns, "ready" after
    indexes,        \* self.indexes: corpus name -> vectors of the FAISS index
    metadata,       \* self.metadata: corpus name -> [ids, documents]
    type_map,       \* self.type_map: title -> document type
    ner_entities,   \* self.ner_entities: title -> set of lowercased entities
    nlp,            \* self.nlp is not None
    served,         \* initialize_bot returns the bot, not None
    op,             \* the method the last call ran
    query,          \* its query argument
    searched,       \* the corpus it had search_and_rank look in, "" when none
    q_vec,          \* the embedding model.encode returned for it, <<>> when not called
    calls,          \* the collaborators the call invoked, in order
    candidates,     \* (position, distance) slots search_and_rank took from the index
    docs,           \* the list search_and_rank returned
    answer,         \* what ask_rag returned: "", "nothing" or "stream"
    sources,        \* the titles ask_rag returned
    intent,         \* what classify_intent returned
    entities,       \* what extract_query_entities returned
    raised,         \* the exception that left the call, "" when it returned
    before,         \* when the call repeats the one before it: <<what that one gave>>
    chat,           \* the chat handler: "idle", "streaming" or "done"
    response_stream,\* the chunks the response stream yields, in order
    consumed,       \* how many of them the loop has taken
    token_buffer,   \* token_buffer
    full_response,  \* full_response
    shown,          \* what message_placeholder.markdown was last given
    flushes,        \* how many times the loop has displayed
    messages        \* st.session_state.messages

vars == <<files, pc, indexes, metadata, type_map, ner_entities, nlp, served, op, query,
          searched, q_vec, calls, candidates, docs, answer, sources, intent, entities, raised, before,
          data, chat, response_stream, consumed, token_buffer, full_response, shown,
          flushes, messages>>

chatVars == <<chat, response_stream, consumed, token_buffer, full_response, shown,
              flushes, messages>>

botVars == <<files, pc, indexes, metadata, type_map, ner_entities, nlp, served>>

-----------------------------------------------------------------------------
(* Bounds of the model.                                                    *)

\* documents of the lore source collection; a lore snapshot holds a run of them
LoreDocs == 8
\* documents of the timeline snapshot
TimelineDocs == 2
\* documents of the slang snapshot
SlangDocs == 1
\* embedding coordinates range over 0..MaxCoord
MaxCoord == 5
\* chunks concatenated into a query text handed to classify_intent
MaxChunks == 3

-----------------------------------------------------------------------------
(* Program constants.                                                      *)

TOP_K_RETRIEVAL == 7
\* 0.2, in hundredths
BOOST_VALUE == 20
\* 0.05, in hundredths
NER_BOOST_PER_MATCH == 5
\* results[:4]
RESULT_CAP == 4
\* the "no result" label FAISS pads a short result with
NO_RESULT == -1
\* the distance FAISS pads a short L2 result with (FLT_MAX), beyond every real one
FLT_MAX == 1000000

CorpusNames == <<"lore", "timeline", "slang">>

Names == {CorpusNames[i] : i \in 1..Len(CorpusNames)}

-----------------------------------------------------------------------------
(* Text.                                                                   *)

UpperCase == <<"A","B","C","D","E","F","G","H","I","J","K","L","M",
               "N","O","P","Q","R","S","T","U","V","W","X","Y","Z">>

LowerCase == <<"a","b","c","d","e","f","g","h","i","j","k","l","m",
               "n","o","p","q","r","s","t","u","v","w","x","y","z">>

LowerChar(c) ==
    IF \E i \in 1..Len(UpperCase) : UpperCase[i] = c
    THEN LowerCase[CHOOSE i \in 1..Len(UpperCase) : UpperCase[i] = c]
    ELSE c

\* str.lower()
Lower(s) == [i \in 1..Len(s) |-> LowerChar(s[i])]

\* w in q, for strings
Contains(w, q) ==
    \E i \in 0..(Len(q) - Len(w)) : SubSeq(q, i + 1, i + Len(w)) = w

-----------------------------------------------------------------------------
(* Python values handed in as a query: a str, or something that is not.    *)

Str(s) == [kind |-> "str", text |-> s]

None == [kind |-> "NoneType", text |-> <<>>]

AnInt == [kind |-> "int", text |-> <<>>]

\* what a call hands back: the exception that left it ("" for none) and its value
Return(v) == [exc |-> "", value |-> v]

Raise(e, v) == [exc |-> e, value |-> v]

-----------------------------------------------------------------------------
(* classify_intent                                                         *)

TimelineWords == {<<"w","h","e","n">>, <<"y","e","a","r">>,
                  <<"t","i","m","e","l","i","n","e">>}

PersonWords == {<<"w","h","o">>, <<"p","e","r","s","o","n">>}

LocationWords == {<<"w","h","e","r","e">>,
                  <<"l","o","c","a","t","i","o","n">>}

Intents == {"timeline", "person", "location", "general"}

\* the person rule tried before the timeline rule
IntentPersonFirst(q) ==
    IF \E w \in PersonWords : Contains(w, q) THEN "person"
    ELSE IF \E w \in TimelineWords : Contains(w, q) THEN "timeline"
    ELSE IF \E w \in LocationWords : Contains(w, q) THEN "location"
    ELSE "general"

\* the rules on the lowered text, in the order of the if statements
IntentOfLowered(q) ==
    IF \E w \in TimelineWords : Contains(w, q) THEN "timeline"
    ELSE IF \E w \in PersonWords : Contains(w, q) THEN "person"
    ELSE IF \E w \in LocationWords : Contains(w, q) THEN "location"
    ELSE "general"

\* q.lower() raises AttributeError on a value that has no such method
classify_intent(q) ==
    IF q.kind # "str" THEN Raise("AttributeError", "")
    ELSE Return(IntentOfLowered(Lower(q.text)))

-----------------------------------------------------------------------------
(* extract_query_entities: the extractor is spaCy's, here a gazetteer that *)
(* finds the names it knows in the text as written.                        *)

Johnny == <<"J","o","h","n","n","y">>

Arasaka == <<"A","r","a","s","a","k","a">>

KnownEntities == {Johnny, Arasaka}

\* doc.ents
Ents(text) == {n \in KnownEntities : Contains(n, text)}

extract_query_entities(hasNlp, q) ==
    IF ~hasNlp THEN {} ELSE {Lower(e) : e \in Ents(q.text)}

-----------------------------------------------------------------------------
(* Documents and the files under data/indexes.  A document is known by its *)
(* title, a number: 1..LoreDocs are the lore articles, 101.. the timeline  *)
(* events, 201.. the slang entries.                                        *)

LoreTitles == 1..LoreDocs

\* a record of the embedding documents file: {'title': ..., 'summary': ...}
Doc(t) == [title |-> t, summary |-> 1000 + t]

\* model.encode of a document: its embedding
DocVec(t) == (t * t) % (MaxCoord + 1)

\* document_type_mapping.json: the type get_document_type gave each article
DocType(t) ==
    CASE t % 4 = 1 -> "character"
      [] t % 4 = 2 -> "location"
      [] t % 4 = 3 -> "organization"
      [] OTHER -> "concept"

\* cyberpunk_ner_entities.json after e["text"].lower(): the entities of each article
DocEntities(t) ==
    (IF (t \div 2) % 2 = 1 THEN {Lower(Johnny)} ELSE {})
    \cup (IF (t \div 4) % 2 = 1 THEN {Lower(Arasaka)} ELSE {})

\* the titles a..b in order
Run(a, b) == [i \in 1..(b - a + 1) |-> a + i - 1]

\* cyberpunk_<name>.index as build_and_save_index writes it: one vector per document
IndexFile(ts) == [ok |-> TRUE, vectors |-> [i \in 1..Len(ts) |-> DocVec(ts[i])]]

\* cyberpunk_<name>_metadata.pkl as build_and_save_index writes it
MetadataFile(ts) ==
    [ok |-> TRUE, ids |-> ts, documents |-> [i \in 1..Len(ts) |-> Doc(ts[i])]]

Unreadable(f) == [f EXCEPT !.ok = FALSE]

\* all of s but its last element
Front(s) == SubSeq(s, 1, Len(s) - 1)

FaultKinds == {"index_unreadable", "metadata_unreadable", "metadata_short",
               "index_short"}

OtherFaults == {<<"type_map", "unreadable">>, <<"ner", "unreadable">>,
                <<"spacy", "missing">>}

Faults == (Names \X FaultKinds) \cup OtherFaults

\* the damage considered: none, or one damaged file
FaultSets == {{}} \cup {{f} : f \in Faults}

\* the snapshot of corpus n built from the titles ts, damaged as F says
CorpusIndexFile(n, ts, F) ==
    IF <<n, "index_unreadable">> \in F THEN Unreadable(IndexFile(ts))
    ELSE IF <<n, "index_short">> \in F THEN IndexFile(Front(ts))
    ELSE IndexFile(ts)

CorpusMetadataFile(n, ts, F) ==
    IF <<n, "metadata_unreadable">> \in F THEN Unreadable(MetadataFile(ts))
    ELSE IF <<n, "metadata_short">> \in F THEN MetadataFile(Front(ts))
    ELSE MetadataFile(ts)

Titles(n, lore) ==
    CASE n = "lore" -> lore
      [] n = "timeline" -> Run(101, 100 + TimelineDocs)
      [] OTHER -> Run(201, 200 + SlangDocs)

Files(lore, F) ==
    [index |-> [n \in Names |-> CorpusIndexFile(n, Titles(n, lore), F)],
     metadata |-> [n \in Names |-> CorpusMetadataFile(n, Titles(n, lore), F)],
     type_map_ok |-> <<"type_map", "unreadable">> \notin F,
     ner_ok |-> <<"ner", "unreadable">> \notin F,
     spacy_ok |-> <<"spacy", "missing">> \notin F]

\* the runs of lore articles a snapshot may hold, the empty one among them
LoreRuns == {Run(a, b) : a \in LoreTitles, b \in LoreTitles} \cup {<<>>}

NoQuery == Str(<<>>)

\* no embedding was computed
NoVec == <<>>

Idle ==
    /\ op = ""
    /\ query = NoQuery
    /\ searched = ""
    /\ q_vec = NoVec
    /\ calls = <<>>
    /\ candidates = <<>>
    /\ docs = <<>>
    /\ answer = ""
    /\ sources = <<>>
    /\ intent = ""
    /\ entities = {}
    /\ raised = ""
    /\ before = <<>>

\* the bot as it is before CyberpunkBot() has run
Unbuilt ==
    /\ indexes = <<>>
    /\ metadata = <<>>
    /\ type_map = <<>>
    /\ ner_entities = <<>>
    /\ nlp = FALSE
    /\ served = FALSE

\* no prompt has been entered
NoChat ==
    /\ chat = "idle"
    /\ response_stream = <<>>
    /\ consumed = 0
    /\ token_buffer = <<>>
    /\ full_response = <<>>
    /\ shown = <<>>
    /\ flushes = 0
    /\ messages = <<>>

Init ==
    /\ \E lore \in LoreRuns, F \in FaultSets : files = Files(lore, F)
    /\ data = <<>>
    /\ pc = "start"
    /\ Unbuilt
    /\ Idle
    /\ NoChat

-----------------------------------------------------------------------------
(* CyberpunkBot.__init__                                                   *)

\* the loop over "lore", "timeline", "slang": read_index, then pickle.load, and
\* an exception from either ends that corpus's turn with what was stored so far
LoadedIndexes(f) ==
    [n \in {m \in Names : f.index[m].ok} |-> f.index[n].vectors]

LoadedMetadata(f) ==
    [n \in {m \in Names : f.index[m].ok /\ f.metadata[m].ok} |->
        [ids |-> f.metadata[n].ids, documents |-> f.metadata[n].documents]]

LoadedTypeMap(f) ==
    IF f.type_map_ok THEN [t \in LoreTitles |-> DocType(t)] ELSE <<>>

LoadedNerEntities(f) ==
    IF f.ner_ok THEN [t \in LoreTitles |-> DocEntities(t)] ELSE <<>>

\* initialize_bot hands the bot on only with the lore index and metadata in it
Gate(ix, md) == "lore" \in DOMAIN ix /\ "lore" \in DOMAIN md

\* bot = CyberpunkBot() in initialize_bot, and what initialize_bot makes of it
Construct ==
    /\ pc = "start"
    /\ pc' = "ready"
    /\ nlp' = files.spacy_ok
    /\ indexes' = LoadedIndexes(files)
    /\ metadata' = LoadedMetadata(files)
    /\ served' = Gate(LoadedIndexes(files), LoadedMetadata(files))
    /\ type_map' = LoadedTypeMap(files)
    /\ ner_entities' = LoadedNerEntities(files)
    /\ UNCHANGED <<files, op, query, searched, q_vec, calls, candidates, docs, answer,
                   sources, intent, entities, raised, before, data, chatVars>>

-----------------------------------------------------------------------------
(* The FAISS index: IndexFlatL2.search(q_vec, k).                           *)

\* the difference left unsquared
SignedDifference(a, b) == a - b

\* squared Euclidean distance
L2Sqr(a, b) == (a - b) * (a - b)

\* position i (from 1) comes before position j in the result for query vector q
Nearer(vectors, q, i, j) ==
    \/ L2Sqr(q, vectors[i]) < L2Sqr(q, vectors[j])
    \/ L2Sqr(q, vectors[i]) = L2Sqr(q, vectors[j]) /\ i < j

RECURSIVE NearestOf(_, _, _, _)
\* the k nearest of the positions S, nearest first
NearestOf(vectors, q, S, k) ==
    IF k = 0 \/ S = {} THEN <<>>
    ELSE LET m == CHOOSE i \in S : \A j \in S \ {i} : Nearer(vectors, q, i, j)
         IN  <<m>> \o NearestOf(vectors, q, S \ {m}, k - 1)

\* distances and labels, k of each: labels count from 0, and the slots past the
\* index's size hold the label -1 and the distance FLT_MAX
Search(vectors, q, k) ==
    LET near == NearestOf(vectors, q, 1..Len(vectors), k)
    IN  [distances |-> [i \in 1..k |->
                          IF i <= Len(near) THEN L2Sqr(q, vectors[near[i]])
                          ELSE FLT_MAX],
         indices |-> [i \in 1..k |->
                          IF i <= Len(near) THEN near[i] - 1 ELSE NO_RESULT]]

-----------------------------------------------------------------------------
(* search_and_rank                                                         *)

\* Document(page_content=meta["summary"], metadata={"title": ..., "score": ...})
\* a document whose score is lowered when the type map calls it a character
DocumentBoosted(meta, score) ==
    [page_content |-> meta.summary, title |-> meta.title,
     score |-> IF meta.title \in DOMAIN type_map /\ type_map[meta.title] = "character"
               THEN score - BOOST_VALUE
               ELSE score]

\* a document that also carries the id its record is stored under
DocumentWithId(meta, score) ==
    [page_content |-> meta.summary, title |-> meta.title, score |-> score,
     id |-> meta.title]

Document(meta, score) ==
    [page_content |-> meta.summary, title |-> meta.title, score |-> score]

\* score = float(distances[0][i])
ScoreOf(distance) == distance

RECURSIVE InsertBeforeEqual(_, _)
\* d put into the sorted list s before the elements of its own score
InsertBeforeEqual(s, d) ==
    IF s = <<>> THEN <<d>>
    ELSE IF s[Len(s)].score < d.score THEN Append(s, d)
    ELSE Append(InsertBeforeEqual(Front(s), d), s[Len(s)])

RECURSIVE InsertByScore(_, _)
\* d put into the sorted list s behind every element whose score is not greater
InsertByScore(s, d) ==
    IF s = <<>> THEN <<d>>
    ELSE IF s[Len(s)].score <= d.score THEN Append(s, d)
    ELSE Append(InsertByScore(Front(s), d), s[Len(s)])

RECURSIVE SortByScore(_)
\* results.sort(key=lambda d: d.metadata["score"]): ascending and stable
SortByScore(s) ==
    IF s = <<>> THEN <<>>
    ELSE InsertByScore(SortByScore(Front(s)), s[Len(s)])

\* the last four instead of the first: results[-4:]
TruncateTail(s) ==
    SubSeq(s, IF Len(s) < RESULT_CAP THEN 1 ELSE Len(s) - RESULT_CAP + 1, Len(s))

\* a slice one too long: results[:5]
TruncateOneMore(s) ==
    SubSeq(s, 1, IF Len(s) < RESULT_CAP + 1 THEN Len(s) ELSE RESULT_CAP + 1)

\* results[:4]
Truncate(s) == SubSeq(s, 1, IF Len(s) < RESULT_CAP THEN Len(s) ELSE RESULT_CAP)

\* the slots of the search result whose label is not -1, in slot order
TakenSlots(found) ==
    SelectSeq([i \in 1..TOP_K_RETRIEVAL |->
                  [position |-> found.indices[i], distance |-> found.distances[i]]],
              LAMBDA c : c.position # NO_RESULT)

\* The method on the bot state (ix, md), qv being what self.model.encode gives
\* for the query, <<c>> for the vector c and <<>> when it raises: what the
\* method returns or raises, the slots it took and the collaborators it invoked.
search_and_rank(ix, md, index_name, qv) ==
    IF index_name \notin DOMAIN ix
    THEN [exc |-> "", value |-> <<>>, taken |-> <<>>, calls |-> <<>>]
    ELSE IF qv = <<>>
    THEN [exc |-> "EncoderError", value |-> <<>>, taken |-> <<>>, calls |-> <<"encode">>]
    ELSE
    LET found == Search(ix[index_name], qv[1], TOP_K_RETRIEVAL)
        taken == TakenSlots(found)
        invoked == <<"encode", "search">>
    IN  IF taken # <<>> /\ index_name \notin DOMAIN md
        THEN [exc |-> "KeyError", value |-> <<>>, taken |-> taken, calls |-> invoked]
        ELSE IF \E i \in 1..Len(taken) :
                    taken[i].position >= Len(md[index_name].documents)
        THEN [exc |-> "IndexError", value |-> <<>>, taken |-> taken, calls |-> invoked]
        ELSE
        LET results == [i \in 1..Len(taken) |->
                           Document(md[index_name].documents[taken[i].position + 1],
                                    ScoreOf(taken[i].distance))]
        IN  [exc |-> "", value |-> Truncate(SortByScore(results)),
             taken |-> taken, calls |-> invoked]

-----------------------------------------------------------------------------
(* The calls.  The texts asked in the full model are a few sample queries; *)
(* the embedding of a query is the encoder's business and may be anything. *)

When == <<"W","h","e","n">>

Who == <<"W","h","o">>

Space == <<" ">>

SampleQueries ==
    {Str(When \o Space \o Arasaka),
     Str(Who \o Space \o Johnny),
     Str(Johnny \o Space \o Arasaka)}

Coords == 0..MaxCoord

\* what self.model.encode([query]) may do: give a vector, or raise
Encodings == {<<c>> : c \in Coords} \cup {<<>>}

\* the corpus ask_rag hands to search_and_rank
\* an ask_rag that looks in the timeline corpus
ASK_TIMELINE == "timeline"

ASK_CORPUS == "lore"

\* what a call of search_and_rank leaves with its caller
Ranked(q, n, qv) ==
    LET r == search_and_rank(indexes, metadata, n, qv)
    IN  /\ op' = "search_and_rank"
        /\ query' = q
        /\ searched' = n
        /\ q_vec' = IF r.calls = <<>> THEN NoVec ELSE qv
        /\ calls' = r.calls
        /\ candidates' = r.taken
        /\ docs' = r.value
        /\ raised' = r.exc
        /\ answer' = ""
        /\ sources' = <<>>
        /\ intent' = ""
        /\ entities' = {}

\* a search that takes the vectors it looked at out of the index
SearchAndRankConsuming(q, n, qv) ==
    /\ pc = "ready"
    /\ op = ""
    /\ Ranked(q, n, qv)
    /\ before' = <<>>
    /\ indexes' = [m \in DOMAIN indexes |-> IF m = n THEN <<>> ELSE indexes[m]]
    /\ UNCHANGED <<files, pc, metadata, type_map, ner_entities, nlp, served, data, chatVars>>

SearchAndRank(q, n, qv) ==
    /\ pc = "ready"
    /\ op = ""
    /\ Ranked(q, n, qv)
    /\ before' = <<>>
    /\ UNCHANGED <<botVars, data, chatVars>>

\* what a call of ask_rag leaves with its caller
Answered(q, qv) ==
    LET r == search_and_rank(indexes, metadata, ASK_CORPUS, qv)
        streams == r.exc = "" /\ r.value # <<>>
    IN  /\ op' = "ask_rag"
        /\ query' = q
        /\ searched' = ASK_CORPUS
        /\ q_vec' = IF r.calls = <<>> THEN NoVec ELSE qv
        /\ calls' = r.calls \o (IF streams THEN <<"stream">> ELSE <<>>)
        /\ candidates' = r.taken
        /\ docs' = r.value
        /\ raised' = r.exc
        /\ answer' = IF r.exc # "" THEN ""
                     ELSE IF r.value = <<>> THEN "Got nothing on that, choomba."
                     ELSE "stream"
        /\ sources' = [i \in 1..Len(r.value) |-> r.value[i].title]
        /\ intent' = ""
        /\ entities' = {}

\* the documents of a corpus, last first
Reversed(s) == [i \in 1..Len(s) |-> s[Len(s) + 1 - i]]

\* an ask_rag that leaves the lore records it read in the opposite order
AskRagInPlace(q, qv) ==
    /\ pc = "ready"
    /\ op = ""
    /\ Answered(q, qv)
    /\ before' = <<>>
    /\ metadata' = [m \in DOMAIN metadata |->
                       IF m = ASK_CORPUS
                       THEN [metadata[m] EXCEPT !.documents = Reversed(@)]
                       ELSE metadata[m]]
    /\ UNCHANGED <<files, pc, indexes, type_map, ner_entities, nlp, served, data, chatVars>>

AskRag(q, qv) ==
    /\ pc = "ready"
    /\ op = ""
    /\ Answered(q, qv)
    /\ before' = <<>>
    /\ UNCHANGED <<botVars, data, chatVars>>

\* what the caller of ask_rag holds
Given == [docs |-> docs, sources |-> sources, answer |-> answer, raised |-> raised]

\* the same prompt asked again, the encoder giving the same as before
AskAgain ==
    /\ pc = "ready"
    /\ op = "ask_rag"
    /\ before = <<>>
    /\ Answered(query, q_vec)
    /\ before' = <<Given>>
    /\ UNCHANGED <<botVars, data, chatVars>>

ClassifyIntent(q) ==
    LET r == classify_intent(q)
    IN  /\ pc = "ready"
        /\ op = ""
        /\ op' = "classify_intent"
        /\ query' = q
        /\ searched' = ""
        /\ q_vec' = NoVec
        /\ calls' = <<>>
        /\ candidates' = <<>>
        /\ docs' = <<>>
        /\ raised' = r.exc
        /\ answer' = ""
        /\ sources' = <<>>
        /\ intent' = r.value
        /\ entities' = {}
        /\ before' = <<>>
        /\ UNCHANGED <<botVars, data, chatVars>>

ExtractQueryEntities(q) ==
    /\ pc = "ready"
    /\ op = ""
    /\ op' = "extract_query_entities"
    /\ query' = q
    /\ searched' = ""
    /\ q_vec' = NoVec
    /\ calls' = IF nlp THEN <<"nlp">> ELSE <<>>
    /\ candidates' = <<>>
    /\ docs' = <<>>
    /\ raised' = ""
    /\ answer' = ""
    /\ sources' = <<>>
    /\ intent' = ""
    /\ entities' = extract_query_entities(nlp, q)
    /\ before' = <<>>
    /\ UNCHANGED <<botVars, data, chatVars>>

SearchCall == \E q \in SampleQueries, n \in Names, qv \in Encodings : SearchAndRank(q, n, qv)

AskCall == \E q \in SampleQueries, qv \in Encodings : AskRag(q, qv)

ClassifyCall == \E q \in SampleQueries \cup {Str(<<>>), None, AnInt} : ClassifyIntent(q)

\* The call has returned (or raised) and its caller lets go of what it got:
\* nothing of a call outlives it, the bot is as it was.
Discard ==
    /\ op # ""
    /\ op' = ""
    /\ query' = NoQuery
    /\ searched' = ""
    /\ q_vec' = NoVec
    /\ calls' = <<>>
    /\ candidates' = <<>>
    /\ docs' = <<>>
    /\ raised' = ""
    /\ answer' = ""
    /\ sources' = <<>>
    /\ intent' = ""
    /\ entities' = {}
    /\ before' = <<>>
    /\ UNCHANGED <<botVars, data, chatVars>>

ExtractCall == \E q \in SampleQueries : ExtractQueryEntities(q)

Next == Construct \/ SearchCall \/ AskCall \/ AskAgain \/ ClassifyCall \/ ExtractCall \/ Discard

Spec == Init /\ [][Next]_vars

-----------------------------------------------------------------------------
(* The ranking rule as designed: the boosts a candidate is due, from the   *)
(* query's intent and entities and the loaded type map and entity table.   *)

\* a search has returned its list to the caller
Returned == op \in {"search_and_rank", "ask_rag"} /\ raised = ""

TypeTag(title) == IF title \in DOMAIN type_map THEN type_map[title] ELSE ""

\* Person matches character, Location matches location, Timeline the timeline corpus
TypeMatch(title) ==
    LET i == classify_intent(query).value
    IN  \/ i = "person" /\ TypeTag(title) = "character"
        \/ i = "location" /\ TypeTag(title) = "location"
        \/ i = "timeline" /\ searched = "timeline"

EntityOverlap(title) ==
    Cardinality(extract_query_entities(nlp, query)
                \cap (IF title \in DOMAIN ner_entities THEN ner_entities[title] ELSE {}))

Boosts(title) ==
    (IF TypeMatch(title) THEN BOOST_VALUE ELSE 0)
    + NER_BOOST_PER_MATCH * EntityOverlap(title)

\* the distance the index gave for the document of this title
RawDistance(title) ==
    LET i == CHOOSE k \in 1..Len(candidates) :
                 metadata[searched].documents[candidates[k].position + 1].title = title
    IN  candidates[i].distance

Ranks == 1..Len(docs)

\* C1: the score each returned document carries is its raw distance minus
\* BOOST_VALUE when its type matches the intent and minus NER_BOOST_PER_MATCH
\* for every entity it shares with the query.
C1_ScoreIsDistanceMinusBoosts ==
    Returned =>
        \A i \in Ranks :
            docs[i].score = RawDistance(docs[i].title) - Boosts(docs[i].title)

\* C2: of two returned documents with equal entity overlap, the one whose type
\* matches the intent comes before the one whose type does not, when its raw
\* distance is less than BOOST_VALUE above the other's.
C2_TypeMatchOutranks ==
    Returned =>
        \A i, j \in Ranks :
            ( /\ TypeMatch(docs[i].title)
              /\ ~TypeMatch(docs[j].title)
              /\ EntityOverlap(docs[i].title) = EntityOverlap(docs[j].title)
              /\ RawDistance(docs[i].title) - RawDistance(docs[j].title) < BOOST_VALUE )
            => i < j

\* C3: of two returned documents with equal raw distance and equal type match, the
\* one sharing more entities with the query has the lower score, by
\* NER_BOOST_PER_MATCH an entity, and comes first.
C3_EntityOverlapOutranks ==
    Returned =>
        \A i, j \in Ranks :
            ( /\ RawDistance(docs[i].title) = RawDistance(docs[j].title)
              /\ TypeMatch(docs[i].title) = TypeMatch(docs[j].title)
              /\ EntityOverlap(docs[i].title) > EntityOverlap(docs[j].title) )
            => /\ docs[j].score - docs[i].score = NER_BOOST_PER_MATCH
                    * (EntityOverlap(docs[i].title) - EntityOverlap(docs[j].title))
               /\ i < j

\* C4: no score exceeds its raw distance, and at equal raw distance one more
\* shared entity, or a type match gained, makes the score strictly lower.
C4_BoostsStrictlyReduce ==
    Returned =>
        /\ \A i \in Ranks : docs[i].score <= RawDistance(docs[i].title)
        /\ \A i, j \in Ranks :
              RawDistance(docs[i].title) = RawDistance(docs[j].title) =>
                /\ ( /\ EntityOverlap(docs[i].title) = EntityOverlap(docs[j].title) + 1
                     /\ TypeMatch(docs[i].title) = TypeMatch(docs[j].title) )
                   => docs[i].score < docs[j].score
                /\ ( /\ EntityOverlap(docs[i].title) = EntityOverlap(docs[j].title)
                     /\ TypeMatch(docs[i].title)
                     /\ ~TypeMatch(docs[j].title) )
                   => docs[i].score < docs[j].score

\* C5: the list search_and_rank returns has at most 4 elements and their scores
\* ascend.
C5_AtMostFourAscending ==
    /\ Len(docs) <= 4
    /\ \A i \in 1..(Len(docs) - 1) : docs[i].score <= docs[i + 1].score

\* more than four candidates were taken and the four kept differ in score
C5_Witness ==
    /\ Returned
    /\ Len(candidates) > 4
    /\ Len(docs) = 4
    /\ docs[1].score < docs[4].score

-----------------------------------------------------------------------------
(* classify_intent on its own, over the texts made of a few chunks: the    *)
(* keywords whole and in pieces, in either case, and filler.               *)

Chunks ==
    {<<"W","h">>, <<"e","n">>, <<"o">>, <<"e","r","e">>, <<"Y","E","A","R">>,
     <<"p","e","r","s","o","n">>, <<"L","o","c","a","t","i","o","n">>,
     <<"t","i","m","e","l","i","n","e">>, <<" ">>, <<"x">>}

RECURSIVE Texts(_)
\* the concatenations of at most k chunks
Texts(k) ==
    IF k = 0 THEN {<<>>}
    ELSE Texts(k - 1) \cup {t \o c : t \in Texts(k - 1), c \in Chunks}

ClassifyText == \E t \in Texts(MaxChunks) : ClassifyIntent(Str(t))

ClassifyOther == \E q \in {None, AnInt} : ClassifyIntent(q)

InitClassify == Init /\ files = Files(<<>>, {})

NextClassify == Construct \/ ClassifyText \/ ClassifyOther \/ Discard

SpecClassify == InitClassify /\ [][NextClassify]_vars

\* the lowered text mentions one of the words
Mentions(text, words) == \E w \in words : Contains(w, Lower(text))

\* C6: classify_intent answers timeline for a text with "when", "year" or
\* "timeline" whatever else it holds; else person for one with "who" or "person";
\* else location for one with "where" or "location"; else general.
C6_FirstMatchingRuleWins ==
    (op = "classify_intent" /\ query.kind = "str") =>
        LET t == Mentions(query.text, {<<"w","h","e","n">>, <<"y","e","a","r">>,
                                       <<"t","i","m","e","l","i","n","e">>})
            p == Mentions(query.text, {<<"w","h","o">>, <<"p","e","r","s","o","n">>})
            l == Mentions(query.text, {<<"w","h","e","r","e">>,
                                       <<"l","o","c","a","t","i","o","n">>})
        IN  /\ raised = ""
            /\ t => intent = "timeline"
            /\ (~t /\ p) => intent = "person"
            /\ (~t /\ ~p /\ l) => intent = "location"
            /\ (~t /\ ~p /\ ~l) => intent = "general"

\* a text with a person keyword and a timeline keyword written in capitals was
\* classified timeline
C6_Witness ==
    /\ op = "classify_intent"
    /\ Contains(<<"p","e","r","s","o","n">>, query.text)
    /\ Contains(<<"Y","E","A","R">>, query.text)
    /\ intent = "timeline"

\* C7: classify_intent returns one of the four intents, and raises nothing, for
\* every input, a value that is not a string included; the empty string is general.
C7_NeverRaises ==
    op = "classify_intent" =>
        /\ raised = ""
        /\ intent \in Intents
        /\ query = Str(<<>>) => intent = "general"

\* C8: ask_rag searches the corpus the classifier selects for the query, the
\* timeline corpus for a query classified timeline, and classifies before it
\* searches.
C8_SearchesClassifiedCorpus ==
    op = "ask_rag" =>
        /\ classify_intent(query).value = "timeline" => searched = "timeline"
        /\ \A j \in 1..Len(calls) :
              calls[j] = "search" => \E i \in 1..(j - 1) : calls[i] = "classify_intent"

C10_SmallCorpusAllConsidered ==
    ( /\ op = "search_and_rank"
      /\ searched \in DOMAIN indexes
      /\ searched \in DOMAIN metadata
      /\ Len(metadata[searched].documents) < 7 )
    => LET n == Len(metadata[searched].documents)
       IN  /\ raised = ""
           /\ Len(candidates) = n
           /\ {candidates[i].position : i \in 1..Len(candidates)} = 0..(n - 1)
           /\ n = 0 => docs = <<>>

Range(s) == {s[i] : i \in DOMAIN s}

\* the reply of ask_rag when the search gave it nothing
NoInformation == "Got nothing on that, choomba."

\* the snapshot of a corpus did not load: one of its two files could not be read
Unavailable(n) == ~files.index[n].ok \/ ~files.metadata[n].ok

\* self.model.encode was called and raised
EncoderFailed == "encode" \in Range(calls) /\ q_vec = <<>>

\* C11: a call on a corpus whose snapshot failed to load, or whose search gave
\* no candidate, raises nothing (the encoder working): search_and_rank returns
\* the empty list, and ask_rag the fixed reply with no sources without
\* invoking the chain.
C11_UnavailableGivesNothing ==
    (/\ op \in {"search_and_rank", "ask_rag"}
     /\ ~EncoderFailed
     /\ \/ Unavailable(searched)
        \/ "search" \in Range(calls) /\ candidates = <<>>)
    => /\ raised = ""
       /\ docs = <<>>
       /\ op = "ask_rag" => /\ answer = NoInformation
                            /\ sources = <<>>
                            /\ "stream" \notin Range(calls)

\* C12: the same prompt asked twice of an unchanged bot, the encoder giving the
\* same vector, gets the same documents in the same order with the same scores,
\* the same sources and the same reply (or the same exception).
C12_AskedAgainSameAnswer ==
    before # <<>> => before[1] = Given

C12_Witness ==
    /\ before # <<>>
    /\ Len(docs) > 1
    /\ before[1] = Given

\* C13: a corpus the constructor made available has as many metadata records
\* as index vectors.
C13_RecordsMatchVectors ==
    pc = "ready" =>
        \A n \in DOMAIN indexes \cap DOMAIN metadata :
            Len(indexes[n]) = Len(metadata[n].documents)

\* C14: after construction a corpus name has an index registered exactly when
\* it has metadata registered.
C14_IndexIffMetadata ==
    pc = "ready" => DOMAIN indexes = DOMAIN metadata

\* C15: when the snapshot of one corpus is missing or unreadable, that corpus is
\* excluded, the corpora whose files read stay loaded, and the service starts.
C15_OneCorpusMissingNotFatal ==
    pc = "ready" =>
        \A n \in Names :
            Unavailable(n) =>
                /\ n \notin DOMAIN indexes \cup DOMAIN metadata
                /\ \A m \in Names \ {n} :
                       ~Unavailable(m) => m \in DOMAIN indexes \cap DOMAIN metadata
                /\ served

\* C16: when the encoder fails during ask_rag, the caller gets the no-results
\* reply with no sources, and no exception.
C16_EncoderFailureGivesNothing ==
    (op = "ask_rag" /\ EncoderFailed) =>
        /\ raised = ""
        /\ answer = NoInformation
        /\ sources = <<>>

\* C17: a returned record has a summary, a title and a score and nothing else,
\* each taken from one metadata record and its slot; ask_rag's source titles
\* are the titles of its documents in the same order, which is ascending score.
C17_RecordsAndSourcesInRankOrder ==
    Returned =>
        /\ \A i \in Ranks :
               /\ DOMAIN docs[i] = {"page_content", "title", "score"}
               /\ \E k \in 1..Len(candidates) :
                      LET meta == metadata[searched].documents[candidates[k].position + 1]
                      IN  /\ docs[i].title = meta.title
                          /\ docs[i].page_content = meta.summary
                          /\ docs[i].score = candidates[k].distance
        /\ op = "ask_rag" =>
               /\ sources = [i \in Ranks |-> docs[i].title]
               /\ \A i \in Ranks, j \in Ranks : i < j => docs[i].score <= docs[j].score

\* ask_rag returned several documents of different scores, and their titles
C17_Witness ==
    /\ op = "ask_rag"
    /\ raised = ""
    /\ Len(docs) > 2
    /\ docs[1].score < docs[2].score
    /\ sources = [i \in Ranks |-> docs[i].title]
    /\ DOMAIN docs[1] = {"page_content", "title", "score"}

Encodes == Cardinality({i \in DOMAIN calls : calls[i] = "encode"})

\* C19 as amended: ask_rag invokes the encoder exactly once when the lore index
\* is registered and not at all when it is not.
C19_EncodesOnceIfLoreIndexed ==
    op = "ask_rag" => Encodes = (IF "lore" \in DOMAIN indexes THEN 1 ELSE 0)

\* ask_rag answered without the lore index and without the encoder
C19_Witness ==
    /\ op = "ask_rag"
    /\ "lore" \notin DOMAIN indexes
    /\ answer = NoInformation
    /\ Encodes = 0

\* C19: ask_rag invokes the encoder exactly once, whatever the corpora hold.
C19_EncodesExactlyOnce ==
    op = "ask_rag" => Encodes = 1

\* the slot of the search that a returned document came from
SlotOf(i) ==
    CHOOSE k \in 1..Len(candidates) :
        metadata[searched].documents[candidates[k].position + 1].title = docs[i].title

\* C20: of two returned documents with equal scores, the one the vector search
\* returned first comes first.
C20_TiesKeepSearchOrder ==
    Returned =>
        \A i \in Ranks, j \in Ranks :
            (i < j /\ docs[i].score = docs[j].score) => SlotOf(i) < SlotOf(j)

\* two returned documents have the same score
C20_Witness ==
    /\ Returned
    /\ \E i \in Ranks, j \in Ranks :
           /\ i < j
           /\ docs[i].score = docs[j].score
           /\ SlotOf(i) < SlotOf(j)

\* the slots whose documents are in the returned list
SlotsKept == {SlotOf(i) : i \in Ranks}

\* C21: search_and_rank returns min(4, n) of its n valid candidates, and no
\* candidate it leaves out has a strictly lower score than one it returns.
C21_FirstFourOfSorted ==
    Returned =>
        /\ Len(docs) = (IF Len(candidates) < 4 THEN Len(candidates) ELSE 4)
        /\ \A k \in (1..Len(candidates)) \ SlotsKept :
               \A i \in Ranks : ~(candidates[k].distance < docs[i].score)

\* more than four candidates, and one left out scores strictly higher
C21_Witness ==
    /\ Returned
    /\ Len(candidates) > 4
    /\ Len(docs) = 4
    /\ \E k \in (1..Len(candidates)) \ SlotsKept : candidates[k].distance > docs[4].score

\* the record at the position of slot k, scored with the slot's distance
RecordOfSlot(k) ==
    LET meta == metadata[searched].documents[candidates[k].position + 1]
    IN  [page_content |-> meta.summary, title |-> meta.title,
         score |-> candidates[k].distance]

\* C22: what search_and_rank returns is fixed by the slots of the index and the
\* records at their positions alone: the records of the first four slots in slot
\* order with the raw distance as score, whatever the intent of the query, its
\* entities, the type map and the entity sets.
C22_ResultFixedBySlots ==
    Returned =>
        /\ Len(docs) = (IF Len(candidates) < 4 THEN Len(candidates) ELSE 4)
        /\ \A i \in Ranks : docs[i] = RecordOfSlot(i)

\* a document that matches the query's type and shares an entity with it stands
\* behind one that does neither, less than the boosts apart
C22_Witness ==
    /\ Returned
    /\ \E i \in Ranks, j \in Ranks :
           /\ i < j
           /\ Boosts(docs[i].title) = 0
           /\ Boosts(docs[j].title) > docs[j].score - docs[i].score
           /\ docs[i] = RecordOfSlot(i)
           /\ docs[j] = RecordOfSlot(j)

-----------------------------------------------------------------------------
(* build_indexes.py: the builder of the snapshots the bot loads.  An       *)
(* embedding documents file is a JSON object, a sequence of (id, document) *)
(* items in file order.                                                    *)

\* the corpora of FILES, in the order main takes them
BuiltNames == {"lore", "timeline"}

\* most documents of one lore embedding documents file
MaxBuild == 3

\* model.encode of one document
Embed(doc) == DocVec(doc.title)

\* embeddings handed back in the opposite order
EncodeLastFirst(documents) ==
    [i \in 1..Len(documents) |-> Embed(documents[Len(documents) + 1 - i])]

\* model.encode(documents): one embedding per document, in the order given
Encode(documents) == [i \in 1..Len(documents) |-> Embed(documents[i])]

\* what a call writes, or the exception that leaves it before anything is
\* written: embeddings.shape[1] of no embeddings is an IndexError
build_and_save_index(data_dict) ==
    LET ids == [i \in 1..Len(data_dict) |-> data_dict[i].id]
        documents == [i \in 1..Len(data_dict) |-> data_dict[i].doc]
        embeddings == Encode(documents)
    IN  IF embeddings = <<>>
        THEN [exc |-> "IndexError", index |-> Unreadable(IndexFile(<<>>)),
              metadata |-> Unreadable(MetadataFile(<<>>))]
        ELSE [exc |-> "",
              index |-> [ok |-> TRUE, vectors |-> embeddings],
              metadata |-> [ok |-> TRUE, ids |-> ids, documents |-> documents]]

\* one turn of main's loop on the files f: a missing documents file is skipped
\* and a corpus whose build raised leaves nothing
BuildTurn(name, f) ==
    IF ~data[name].found THEN f
    ELSE LET r == build_and_save_index(data[name].items)
         IN  IF r.exc # "" THEN f
             ELSE [f EXCEPT !.index[name] = r.index, !.metadata[name] = r.metadata]

\* an exception other than FileNotFoundError ends main
BuildRaises(name) ==
    data[name].found /\ build_and_save_index(data[name].items).exc # ""

\* main: lore, then timeline unless the build of lore raised
Main ==
    /\ pc = "source"
    /\ pc' = "start"
    /\ files' = IF BuildRaises("lore") THEN files
                ELSE BuildTurn("timeline", BuildTurn("lore", files))
    /\ UNCHANGED <<data, indexes, metadata, type_map, ner_entities, nlp, served,
                   op, query, searched, q_vec, calls, candidates, docs, answer,
                   sources, intent, entities, raised, before, chatVars>>

\* the sequences without repetition of elements of S
Orderings(S) ==
    {s \in UNION {[1..n -> S] : n \in 0..Cardinality(S)} :
        \A i \in DOMAIN s, j \in DOMAIN s : i # j => s[i] # s[j]}

\* the items of a documents file that holds the titles ts
Items(ts) == [i \in 1..Len(ts) |-> [id |-> ts[i], doc |-> Doc(ts[i])]]

\* the documents files there may be for a corpus of these titles
DocumentFiles(S) ==
    {[found |-> TRUE, items |-> Items(ts)] : ts \in Orderings(S)}
    \cup {[found |-> FALSE, items |-> <<>>]}

\* data/indexes with no snapshot in it
NoSnapshots ==
    [index |-> [n \in Names |-> Unreadable(IndexFile(<<>>))],
     metadata |-> [n \in Names |-> Unreadable(MetadataFile(<<>>))],
     type_map_ok |-> TRUE, ner_ok |-> TRUE, spacy_ok |-> TRUE]

InitBuild ==
    /\ \E l \in DocumentFiles(1..MaxBuild),
          t \in DocumentFiles({101 + i : i \in 0..(TimelineDocs - 1)}) :
          data = [n \in BuiltNames |-> IF n = "lore" THEN l ELSE t]
    /\ files = NoSnapshots
    /\ pc = "source"
    /\ Unbuilt
    /\ Idle
    /\ NoChat

NextBuild == Main \/ Construct \/ SearchCall \/ Discard

SpecBuild == InitBuild /\ [][NextBuild]_vars

\* C23: for each corpus it builds, build_and_save_index writes an index and a
\* metadata record list of the length of the documents file, the vector at
\* each position being the embedding of the document at that position, stored
\* under the id at that position; so the record search_and_rank returns for a
\* position is the document the vector at that position was built from.
C23_VectorsAlignWithRecords ==
    pc # "source" =>
        /\ \A n \in BuiltNames :
               files.index[n].ok =>
                   LET ix == files.index[n]
                       md == files.metadata[n]
                       items == data[n].items
                   IN  /\ md.ok
                       /\ Len(ix.vectors) = Len(items)
                       /\ Len(md.documents) = Len(items)
                       /\ Len(md.ids) = Len(items)
                       /\ \A i \in 1..Len(items) :
                              /\ md.ids[i] = items[i].id
                              /\ md.documents[i] = items[i].doc
                              /\ ix.vectors[i] = DocVec(items[i].doc.title)
        /\ (Returned /\ searched \in BuiltNames) =>
               \A i \in Ranks :
                   \E k \in 1..Len(candidates) :
                       LET p == candidates[k].position + 1
                           item == data[searched].items[p]
                       IN  /\ docs[i].title = item.doc.title
                           /\ docs[i].page_content = item.doc.summary
                           /\ indexes[searched][p] = DocVec(item.doc.title)
                           /\ docs[i].score = candidates[k].distance

\* a built lore snapshot whose documents are not in title order was searched
C23_Witness ==
    /\ Returned
    /\ searched = "lore"
    /\ Len(docs) > 2
    /\ data["lore"].items[1].id > data["lore"].items[2].id
    /\ files.index["lore"].vectors[1] = DocVec(data["lore"].items[1].id)
    /\ docs[1].title # data["lore"].items[1].id

-----------------------------------------------------------------------------
(* The chat input handler of search_bot.py: the prompt is put to ask_rag,  *)
(* and the loop shows what the response stream yields through a buffer.    *)

\* most chunks a response of the chain has
MaxStream == 3
\* characters of the longest chunk
LongChunk == 6

BUFFER_LIMIT == 10

buffer_triggers == {".", "!", "?", ",", ";", ":", " "}

\* the cursor the loop displays behind the text
CURSOR == "|"

\* the chunks a response of the chain is made of: empty ones, ones ending in a
\* trigger character or not, and a long one without any
StreamChunks ==
    {<<>>, <<"a">>, <<" ">>, <<"a", ".">>, <<".", "a">>,
     [i \in 1..LongChunk |-> "a"]}

Streams == UNION {[1..n -> StreamChunks] : n \in 0..MaxStream}

\* the reply of ask_rag when the search gave it nothing, as text
NoInformationText ==
    <<"G","o","t"," ","n","o","t","h","i","n","g"," ","o","n"," ",
      "t","h","a","t",","," ","c","h","o","o","m","b","a",".">>

\* iterating over a str yields its characters
Characters(text) == [i \in 1..Len(text) |-> <<text[i]>>]

\* the prompts entered
Prompts == {Str(Who \o Space \o Johnny)}

\* the prompt is entered and put to ask_rag: an exception leaves the handler,
\* the fixed reply is iterated as a string, the chain streams its chunks
Prompt ==
    /\ pc = "ready"
    /\ served
    /\ chat = "idle"
    /\ \E q \in Prompts, qv \in Encodings :
           /\ Answered(q, qv)
           /\ messages' = Append(messages, [role |-> "user", content |-> q.text])
    /\ \/ /\ raised' # ""
          /\ chat' = "failed"
          /\ response_stream' = <<>>
       \/ /\ raised' = ""
          /\ chat' = "streaming"
          /\ IF answer' = "stream"
             THEN response_stream' \in Streams
             ELSE response_stream' = Characters(NoInformationText)
    /\ consumed' = 0
    /\ token_buffer' = <<>>
    /\ full_response' = <<>>
    /\ shown' = <<>>
    /\ flushes' = 0
    /\ before' = <<>>
    /\ UNCHANGED <<botVars, data>>

\* the buffer is displayed when it ends in a trigger or is longer than the limit
Flushes(buffer) ==
    buffer[Len(buffer)] \in buffer_triggers \/ Len(buffer) > BUFFER_LIMIT

\* one turn of the loop over the stream
TakeChunk ==
    /\ chat = "streaming"
    /\ consumed < Len(response_stream)
    /\ consumed' = consumed + 1
    /\ LET chunk == response_stream[consumed + 1]
           buffer == token_buffer \o chunk
       IN  IF chunk = <<>>
           THEN UNCHANGED <<token_buffer, full_response, shown, flushes>>
           ELSE IF Flushes(buffer)
           THEN /\ full_response' = full_response \o buffer
                /\ shown' = Append(full_response \o buffer, CURSOR)
                /\ token_buffer' = <<>>
                /\ flushes' = flushes + 1
           ELSE /\ token_buffer' = buffer
                /\ UNCHANGED <<full_response, shown, flushes>>
    /\ UNCHANGED <<botVars, data, op, query, searched, q_vec, calls, candidates, docs,
                   answer, sources, intent, entities, raised, before, chat,
                   response_stream, messages>>

\* a cleanup that leaves what is still in the buffer out
CleanupWithoutBuffer(response, buffer) == response

\* if token_buffer: full_response += token_buffer
Cleanup(response, buffer) == response \o buffer

\* the stream has ended: cleanup, last display, and the entry in the history
EndStream ==
    /\ chat = "streaming"
    /\ consumed = Len(response_stream)
    /\ chat' = "done"
    /\ full_response' = Cleanup(full_response, token_buffer)
    /\ shown' = Cleanup(full_response, token_buffer)
    /\ messages' = Append(messages, [role |-> "assistant",
                                     content |-> Cleanup(full_response, token_buffer)])
    /\ UNCHANGED <<botVars, data, op, query, searched, q_vec, calls, candidates, docs,
                   answer, sources, intent, entities, raised, before,
                   response_stream, consumed, token_buffer, flushes>>

\* the bot of the chat: an intact lore snapshot, empty or of two documents
InitChat == Init /\ files \in {Files(<<>>, {}), Files(Run(1, 2), {})}

NextChat == Construct \/ Prompt \/ TakeChunk \/ EndStream

SpecChat == InitChat /\ [][NextChat]_vars

RECURSIVE Concatenation(_, _)
\* the chunks 1..n of the stream one after the other
Concatenation(stream, n) ==
    IF n = 0 THEN <<>> ELSE Concatenation(stream, n - 1) \o stream[n]

\* the text received from the stream so far
Received == Concatenation(response_stream, consumed)

IsPrefix(a, b) == Len(a) <= Len(b) /\ a = SubSeq(b, 1, Len(a))

\* C24: in the streaming loop, what is displayed at a flush, before the cursor
\* put behind it, is a prefix of the chunks received so far, and what is
\* displayed and stored in the history when the stream has ended is all chunks
\* one after the other: nothing is dropped, doubled or moved.
C24_StreamedTextIsReceivedText ==
    /\ chat = "streaming" =>
           /\ full_response \o token_buffer = Received
           /\ flushes > 0 => /\ shown = Append(full_response, CURSOR)
                             /\ IsPrefix(full_response, Received)
    /\ chat = "done" =>
           /\ full_response = Concatenation(response_stream, Len(response_stream))
           /\ shown = full_response
           /\ messages[Len(messages)] = [role |-> "assistant", content |-> full_response]

\* a response that was displayed in parts, the last part left in the buffer
\* when the stream ended
C24_Witness ==
    /\ chat = "done"
    /\ flushes > 0
    /\ token_buffer # <<>>
    /\ full_response = Concatenation(response_stream, Len(response_stream))
    /\ \E i \in DOMAIN response_stream : response_stream[i] = <<>>

====
